---- MODULE Spec2Model ----
(***************************************************************************)
(* dev-deck: realtime session and sandboxed execution engine.              *)
(*                                                                         *)
(* The sub-systems of the backend are modelled, each with its own          *)
(* specifications over the shared variables:                               *)
(*   SpecPresence  - backend/src/index.js, socket.io collaborator lists    *)
(*   SpecQueue, SpecCancel - backend/src/services/executionService.js      *)
(*   SpecRun       - the job body of executeCode                           *)
(*   SpecExec, SpecRunner - backend/src/routes/api.js, POST /api/execute   *)
(*   SpecLog, SpecLogEnd - the executionLog events of POST /api/execute    *)
(*   SpecRate      - the two rate limiters in front of the above           *)
(*   SpecChat      - backend/src/index.js chatMessage + sseRoutes history  *)
(*   SpecPost      - who may submit a chat message, and its author id      *)
(*   SpecHist, SpecBroadcast, SpecCollab - backend/src/routes/sseRoutes.js *)
(***************************************************************************)
EXTENDS Integers, Sequences, FiniteSets, TLC

(***************************************************************************)
(* State                                                                   *)
(***************************************************************************)
VARIABLES
    conn,                   \* socket -> "new" | "open" | "closed" | "refused"
    rooms,                  \* socket.io adapter: project -> sockets in the room
    collaboratorsByProject, \* project -> sequence of [userId, socketId]
    pendingJoin,            \* join handlers waiting on Project.findById
    emits,                  \* events emitted by the last handler
    last,                   \* the last handler that ran: [op, s, arg], arg being
                            \* the project, or what the handshake met
    joined                  \* history: project -> sockets joined and not left/closed

presenceVars == <<conn, rooms, collaboratorsByProject, pendingJoin, emits, last,
                  joined>>

VARIABLES
    jobState,       \* job -> "idle" | "limited" | "queued" | "child" | "throwing"
                    \*        | "resolved" | "rejected"
    queue,          \* ExecutionQueue.queue (jobs whose execute closure is queued)
    running,        \* ExecutionQueue.running
    execConsumed,   \* consumed points of the limiter key 'global'
    everQueued,     \* history: jobs ever pushed on the queue
    everTempDir,    \* history: jobs for which mkdirSync(tempDir) was called
    everSpawned,    \* history: jobs for which execa('node', ...) was called
    stopped         \* the stop request that is followed: [job, at], at being the
                    \* job's state when it was sent ("queued" | "running")

queueVars == <<jobState, queue, running, execConsumed, everQueued, everTempDir,
               everSpawned, stopped>>

VARIABLES
    reqPc,       \* request -> "idle" | "limited" | "installing" | "attempt1"
                 \*            | "retry" | "done"
    reqRes,      \* the response sent: "none" | "429" | "failMkdtemp" (500)
                 \*   | "failInstall" | "failSpawn" (400, message of the error)
                 \*   | "ok" (200, success: true)
    resCount,    \* number of responses sent for the request
    conflict,    \* the handler's stderr so far matches /EADDRINUSE/i
    timedOut,    \* the handler's local timedOut (sent in the 200 response)
    tempDir,     \* "none" | "exists" | "retryPending" | "removed" | "leaked"
    spawned,     \* number of exec('node index.js') calls made for the request
    installFailed, \* history: execPromise('npm install') rejected
    mwConsumed,  \* consumed points of the middleware limiter for req.ip
    timerArmed,  \* the 60 s timer of the first attempt is set and pending
    killedLive   \* the first child was sent SIGKILL and has not exited yet

execVars == <<reqPc, reqRes, resCount, conflict, timedOut, tempDir, spawned,
              installFailed, mwConsumed, timerArmed, killedLive>>

VARIABLES
    chatPc,        \* message -> "idle" | "lookup" | "saving" | "done" | "failed"
    chatVia,       \* message -> "socket" | "sse": the interface it was submitted to
    chatTemp,      \* message -> data._id starts with 'temp-'
    chatClientAt,  \* message -> data.createdAt of the client, 0 if it sent none
    chatCreatedAt, \* message -> createdAt of the document built for it
    chatClock,     \* the server's clock (new Date())
    stored,        \* the Message collection of the room, in insertion order
    broadcasts,    \* the chatMessage events emitted to the room, in order
    cleared,       \* history: the room's messages were deleted by a clear
    lastClear      \* the last DELETE /chat/:projectId: who asked, whether the
                   \* project was found, the status sent, where the event went

chatVars == <<chatPc, chatVia, chatTemp, chatClientAt, chatCreatedAt, chatClock,
              stored, broadcasts, cleared, lastClear>>

VARIABLES
    logWritten,    \* number of output chunks the subprocess has written so far
    logStream,     \* chunk -> "none" | "out" | "err": the stream it was written to
    outPipe,       \* chunks written to stdout and not yet read by the handler
    errPipe,       \* chunks written to stderr and not yet read by the handler
    logRoom,       \* sockets subscribed to the project's room
    received,      \* socket -> executionLog events delivered to it, in order
    wholeRun       \* history: sockets subscribed since the spawn without a break

logVars == <<logWritten, logStream, outPipe, errPipe, logRoom, received, wholeRun>>

VARIABLES
    runPc,            \* run -> "idle" | "child" | "done"
    runServerStarted, \* run -> serverStarted of the job body
    runErrorOutput,   \* run -> errorOutput is not empty
    runOutput,        \* run -> number of chunks appended to output
    runEnd,           \* run -> "none" | "exit0" | "exitN" | "timeout"
    runResult,        \* run -> the object returned: [success, error, output, port]
    runPort,          \* run -> serverPort of the job body (0 is null)
    runPrinted,       \* history: the child has printed SERVER_STARTED:<port>
    runDir            \* run -> tempDir: "none" | "exists" | "removed" | "leaked"

runVars == <<runPc, runServerStarted, runErrorOutput, runOutput, runEnd, runResult,
             runPort, runPrinted, runDir>>

VARIABLES
    roomDocs,          \* createdAt of the documents of one room's Message collection
    listed,            \* what the last GET /chat/:projectId returned
    activeConnections, \* activeConnections.get(projectId), in insertion order
    sseConn,           \* connection -> "new" | "open" | "broken" | "closed"
    sseReceived,       \* connection -> the events written to its response
    sseResponses,      \* the statuses answered to the publishers, in order
    dbCollaborators,   \* what getCollaboratorsData computes from the database
    lastCollaborators, \* lastCollaborators of the event stream that is followed
    fetches,           \* its handlers waiting on getCollaboratorsData
    sseUpdates,           \* the collaborator-update events sent on it, in order
    connectionId          \* connection -> the id given to it when it was opened

sseVars == <<roomDocs, listed, activeConnections, sseConn, sseReceived, sseResponses,
             dbCollaborators, lastCollaborators, fetches, sseUpdates, connectionId>>

VARIABLES
    posts              \* the chat submissions handled so far, in order: who sent
                       \* what to which project, and what the handler did with it

postVars == <<posts>>

VARIABLES
    logChild,          \* the subprocess of the followed run: "running" | "killed" | "exited"
    logResponse        \* res.json of the followed run has been sent

endVars == <<logChild, logResponse>>

vars == <<presenceVars, queueVars, execVars, chatVars, logVars, runVars, sseVars,
          postVars, endVars>>

\* What a step of one sub-system leaves alone.
nonPresenceVars == <<queueVars, execVars, chatVars, logVars, runVars, sseVars, postVars,
                   endVars>>
nonQueueVars == <<presenceVars, execVars, chatVars, logVars, runVars, sseVars, postVars,
                   endVars>>
nonExecVars == <<presenceVars, queueVars, chatVars, logVars, runVars, sseVars, postVars,
                   endVars>>
nonChatVars == <<presenceVars, queueVars, execVars, logVars, runVars, sseVars, postVars,
                   endVars>>
nonLogVars == <<presenceVars, queueVars, execVars, chatVars, runVars, sseVars, postVars,
                   endVars>>
nonRunVars == <<presenceVars, queueVars, execVars, chatVars, logVars, sseVars, postVars,
                   endVars>>
nonSseVars == <<presenceVars, queueVars, execVars, chatVars, logVars, runVars, postVars,
               endVars>>
nonPostVars == <<presenceVars, queueVars, execVars, chatVars, logVars, runVars, sseVars,
                endVars>>
nonEndVars == <<presenceVars, queueVars, execVars, chatVars, logVars, runVars, sseVars,
               postVars>>

(***************************************************************************)
(* Presence registry (index.js)                                            *)
(***************************************************************************)
\* Connections and the verified identity io.use attached to each of them.
Sockets == {"s1", "s2", "s3"}
UserOf(s) == IF s \in {"s1", "s2"} THEN "u1" ELSE "u2"

\* Project documents: P1 is private and owned by u1, P2 is public,
\* P0 is a well-formed id with no document.
Projects == {"P1", "P2"}
ProjectIds == Projects \cup {"P0"}
Owner(p) == "u1"
Collaborators(p) == {}
IsPublic(p) == p = "P2"

\* What a handshake may meet: a token that verifies and names a user with a
\* record ("valid"), no token, a token that fails jwt.verify (bad signature,
\* expired), a token without userId, a token whose userId has no user record,
\* and a valid token whose user lookup throws ("dbError").
Handshakes == {"valid", "none", "invalid", "expired", "noUserId", "noUser", "dbError"}

\* A middleware that accepts every verified token that names a userId.
AuthenticateTokenOnly(h) == h \in {"valid", "noUser", "dbError"}

\* io.use: next() is called without an error only for a verified token with a
\* userId whose user document User.findById returns.
Authenticate(h) == h = "valid"

\* Upper bound on project lookups of join handlers that are in flight at once.
MaxPending == 2



\* A search that never finds an entry.
FindIndexNone(list, userId) == 0

\* Array.prototype.findIndex(u => u.userId === userId), 1-based, 0 if none.
FindIndexByUser(list, userId) ==
    IF \E i \in 1..Len(list) : list[i].userId = userId
    THEN CHOOSE i \in 1..Len(list) :
            /\ list[i].userId = userId
            /\ \A j \in 1..(i - 1) : list[j].userId # userId
    ELSE 0

FilterOutUser(list, userId) == SelectSeq(list, LAMBDA u : u.userId # userId)
\* A filter that removes nothing.
FilterOutNothing(list, socketId) == list

\* users.filter(u => u.socketId !== socket.id)
FilterOutSocket(list, socketId) == SelectSeq(list, LAMBDA u : u.socketId # socketId)
FilterUser(list, userId) == SelectSeq(list, LAMBDA u : u.userId = userId)

SocketIds(list) == {list[i].socketId : i \in 1..Len(list)}

\* An access check that lets every identity into every project.
HasAccessAlways(s, p) == TRUE

\* The access check of handleJoinProject.
HasAccess(s, p) ==
    \/ Owner(p) = UserOf(s)
    \/ UserOf(s) \in Collaborators(p)
    \/ IsPublic(p)

\* A join that pushes a new entry whether or not one exists.
JoinedListAppend(list, s) ==
    Append(list, [userId |-> UserOf(s), socketId |-> s])

\* What the join handler does to the room's list once access is granted.
JoinedList(list, s) ==
    LET userData == [userId |-> UserOf(s), socketId |-> s]
        existingUserIndex == FindIndexByUser(list, UserOf(s))
    IN  IF existingUserIndex > 0
        THEN [list EXCEPT ![existingUserIndex] = userData]
        ELSE Append(list, userData)

\* An update that carries an empty list.
UpdateEventStale(p, list) == [ev |-> "collaborator-update", room |-> p, list |-> <<>>]

\* io.to(room).emit('collaborator-update', [...list]).
UpdateEvent(p, list) == [ev |-> "collaborator-update", room |-> p, list |-> list]

Handled(op, s, arg) == [op |-> op, s |-> s, arg |-> arg]

InitPresence ==
    /\ conn = [s \in Sockets |-> "new"]
    /\ last = Handled("none", "none", "none")
    /\ rooms = [p \in ProjectIds |-> {}]
    /\ collaboratorsByProject = [p \in ProjectIds |-> <<>>]
    /\ pendingJoin = {}
    /\ emits = {}
    /\ joined = [p \in ProjectIds |-> {}]

\* A handshake: io.use decides, and io.on("connection") registers the
\* handlers of a socket that was let through.
Connect(s, h) ==
    /\ conn[s] = "new"
    /\ conn' = [conn EXCEPT ![s] = IF Authenticate(h) THEN "open" ELSE "refused"]
    /\ last' = Handled(IF Authenticate(h) THEN "connect" ELSE "refused", s, h)
    /\ emits' = {}
    /\ UNCHANGED <<rooms, collaboratorsByProject, pendingJoin, joined>>
    /\ UNCHANGED nonPresenceVars

\* handleJoinProject up to Project.findById(...): the lookup is started.
JoinProject(s, p) ==
    /\ conn[s] = "open"
    /\ <<s, p>> \notin pendingJoin
    /\ Cardinality(pendingJoin) < MaxPending
    /\ pendingJoin' = pendingJoin \cup {<<s, p>>}
    /\ emits' = {}
    /\ last' = Handled("joinStarted", s, p)
    /\ UNCHANGED <<conn, rooms, collaboratorsByProject, joined>>
    /\ UNCHANGED nonPresenceVars

\* The .then callback of the lookup.
JoinResolved(s, p) ==
    /\ <<s, p>> \in pendingJoin
    /\ pendingJoin' = pendingJoin \ {<<s, p>>}
    /\ UNCHANGED conn
    /\ IF p \notin Projects \/ ~HasAccess(s, p)
       THEN /\ emits' = {}
            /\ last' = Handled(IF p \in Projects THEN "joinDenied" ELSE "joinNoProject",
                               s, p)
            /\ UNCHANGED <<rooms, collaboratorsByProject, joined>>
       ELSE LET list == collaboratorsByProject[p]
                isNew == FindIndexByUser(list, UserOf(s)) = 0
                newList == JoinedList(list, s)
            IN  /\ rooms' = [rooms EXCEPT ![p] = @ \cup {s}]
                /\ collaboratorsByProject' =
                       [collaboratorsByProject EXCEPT ![p] = newList]
                /\ last' = Handled(IF s \in SocketIds(list) THEN "rejoin" ELSE "join",
                                   s, p)
                /\ emits' =
                       {UpdateEvent(p, newList)}
                       \cup (IF isNew
                             THEN {[ev |-> "collaborator-joined", room |-> p,
                                    list |-> <<[userId |-> UserOf(s), socketId |-> s]>>]}
                             ELSE {})
                /\ joined' = [joined EXCEPT ![p] =
                                 IF conn[s] = "open" THEN @ \cup {s} ELSE @]
    /\ UNCHANGED nonPresenceVars

\* handleLeaveProject.
LeaveProject(s, p) ==
    /\ conn[s] = "open"
    /\ rooms' = [rooms EXCEPT ![p] = @ \ {s}]
    /\ joined' = [joined EXCEPT ![p] = @ \ {s}]
    /\ LET list == collaboratorsByProject[p]
           userIndex == FindIndexByUser(list, UserOf(s))
           userConnections == FilterUser(list, UserOf(s))
       IN  IF userIndex > 0
           THEN IF Len(userConnections) <= 1
                THEN LET updatedList == FilterOutUser(list, UserOf(s))
                     IN  /\ collaboratorsByProject' =
                                [collaboratorsByProject EXCEPT ![p] = updatedList]
                         /\ emits' =
                                {[ev |-> "collaborator-left", room |-> p,
                                  list |-> <<[userId |-> UserOf(s), socketId |-> s]>>],
                                 UpdateEvent(p, updatedList)}
                ELSE /\ collaboratorsByProject' =
                            [collaboratorsByProject EXCEPT
                                ![p] = FilterOutSocket(list, s)]
                     /\ emits' = {}
           ELSE /\ emits' = {}
                /\ UNCHANGED collaboratorsByProject
    /\ last' = Handled("leave", s, p)
    /\ UNCHANGED <<conn, pendingJoin>>
    /\ UNCHANGED nonPresenceVars

\* socket.on('disconnect'): socket.io has already taken the socket out of its rooms.
Disconnect(s) ==
    /\ conn[s] = "open"
    /\ conn' = [conn EXCEPT ![s] = "closed"]
    /\ rooms' = [p \in ProjectIds |-> rooms[p] \ {s}]
    /\ joined' = [p \in ProjectIds |-> joined[p] \ {s}]
    /\ collaboratorsByProject' =
           [p \in ProjectIds |-> FilterOutSocket(collaboratorsByProject[p], s)]
    /\ emits' = {UpdateEvent(p, FilterOutSocket(collaboratorsByProject[p], s)) :
                    p \in {q \in ProjectIds :
                             Len(FilterOutSocket(collaboratorsByProject[q], s))
                                # Len(collaboratorsByProject[q])}}
    /\ last' = Handled("disconnect", s, "none")
    /\ UNCHANGED pendingJoin
    /\ UNCHANGED nonPresenceVars

(***************************************************************************)
(* Execution scheduler (executionService.js)                               *)
(***************************************************************************)
MAX_CONCURRENT == 3
\* RateLimiterMemory({points: 20, duration: 60}) of executionService.js.
EXEC_POINTS == 20

\* Calls of executeCode, numbered in the order in which they are made.
MaxJobs == 5
Jobs == 1..MaxJobs

\* Points already consumed in the current window when the model starts:
\* none, or all but LimiterSlack of them.
LimiterSlack == 2


\* RateLimiterMemory.consume(key, 1): the point is counted, and the call is
\* rejected when the count exceeds the points of the window.
ConsumeRejects(consumed, points) == consumed + 1 > points

\* The counter is kept up to one above the points (every further call is
\* rejected alike).
ConsumeCount(consumed, points) ==
    IF consumed + 1 > points THEN points + 1 ELSE consumed + 1

Started(j) == jobState[j] \in {"child", "throwing", "resolved", "rejected"}
InBody(j) == jobState[j] \in {"child", "throwing"}

\* A next() that does not look at the number of running jobs.
QueueNextUnbounded(q, run) ==
    IF Len(q) = 0
    THEN [job |-> 0, rest |-> q]
    ELSE [job |-> Head(q), rest |-> Tail(q)]

\* A next() that stops admitting one slot early.
QueueNextEarlyStop(q, run) ==
    IF Len(q) = 0 \/ run >= MAX_CONCURRENT - 1
    THEN [job |-> 0, rest |-> q]
    ELSE [job |-> Head(q), rest |-> Tail(q)]

\* A next() that takes the most recently queued job (pop instead of shift).
QueueNextLifo(q, run) ==
    IF Len(q) = 0 \/ run >= MAX_CONCURRENT
    THEN [job |-> 0, rest |-> q]
    ELSE [job |-> q[Len(q)], rest |-> SubSeq(q, 1, Len(q) - 1)]

\* ExecutionQueue.next(): the job it starts (0 when it returns early) and the
\* queue it leaves.
QueueNext(q, run) ==
    IF Len(q) = 0 \/ run >= MAX_CONCURRENT
    THEN [job |-> 0, rest |-> q]
    ELSE [job |-> Head(q), rest |-> Tail(q)]

\* A finally block that does not release the slot.
FinallyNoRelease(run, ok) == run

\* A release of the slot that is skipped when the job threw.
FinallyOnSuccessOnly(run, ok) == IF ok THEN run - 1 ELSE run

\* The finally block of execute: the slot is released whatever the outcome.
Finally(run, ok) == run - 1

InitQueue ==
    /\ jobState = [j \in Jobs |-> "idle"]
    /\ queue = <<>>
    /\ running = 0
    /\ everQueued = {}
    /\ everTempDir = {}
    /\ everSpawned = {}
    /\ stopped = [job |-> 0, at |-> "none"]

NextCall == IF \E j \in Jobs : jobState[j] = "idle"
            THEN CHOOSE j \in Jobs :
                    jobState[j] = "idle" /\ \A i \in Jobs : i < j => jobState[i] # "idle"
            ELSE 0

\* A limiter that is consulted inside the queued job: the rejected call has
\* been pushed on the queue and holds a slot when it is rejected.
ExecuteCodeLimitedInJob(j) ==
    /\ j = NextCall
    /\ ConsumeRejects(execConsumed, EXEC_POINTS)
    /\ execConsumed' = ConsumeCount(execConsumed, EXEC_POINTS)
    /\ jobState' = [jobState EXCEPT ![j] = "limited"]
    /\ everQueued' = everQueued \cup {j}
    /\ running' = running + 1
    /\ UNCHANGED <<queue, everTempDir, everSpawned>>
    /\ UNCHANGED stopped
    /\ UNCHANGED nonQueueVars

\* executeCode rejected by rateLimiter.consume('global', 1): the await throws
\* before executionQueue.add is reached.
ExecuteCodeLimited(j) ==
    /\ j = NextCall
    /\ ConsumeRejects(execConsumed, EXEC_POINTS)
    /\ execConsumed' = ConsumeCount(execConsumed, EXEC_POINTS)
    /\ jobState' = [jobState EXCEPT ![j] = "limited"]
    /\ UNCHANGED <<queue, running, everQueued, everTempDir, everSpawned>>
    /\ UNCHANGED stopped
    /\ UNCHANGED nonQueueVars

\* executeCode admitted: executionQueue.add(job) pushes execute and calls next().
ExecuteCode(j) ==
    /\ j = NextCall
    /\ ~ConsumeRejects(execConsumed, EXEC_POINTS)
    /\ execConsumed' = ConsumeCount(execConsumed, EXEC_POINTS)
    /\ everQueued' = everQueued \cup {j}
    /\ LET q == Append(queue, j)
           n == QueueNext(q, running)
       IN  IF n.job = 0
           THEN /\ queue' = q
                /\ jobState' = [jobState EXCEPT ![j] = "queued"]
                /\ UNCHANGED <<running, everTempDir, everSpawned>>
           ELSE \E mk \in BOOLEAN :
                /\ running' = running + 1
                /\ queue' = n.rest
                /\ jobState' = [jobState EXCEPT
                                   ![j] = "queued",
                                   ![n.job] = IF mk THEN "child" ELSE "throwing"]
                /\ everTempDir' = everTempDir \cup {n.job}
                /\ everSpawned' = IF mk THEN everSpawned \cup {n.job} ELSE everSpawned
    /\ UNCHANGED stopped
    /\ UNCHANGED nonQueueVars

\* The job body settles (the child exited or was killed by the execa timeout,
\* tempDir was removed; or the body threw): resolve/reject, the finally block
\* and its call of next() run in the same turn.
JobSettled(j) ==
    /\ InBody(j)
    /\ LET ok == jobState[j] = "child"
           run == Finally(running, ok)
           n == QueueNext(queue, run)
           st == [jobState EXCEPT ![j] = IF ok THEN "resolved" ELSE "rejected"]
       IN  IF n.job = 0
           THEN /\ running' = run
                /\ jobState' = st
                /\ UNCHANGED <<queue, everTempDir, everSpawned>>
           ELSE \E mk \in BOOLEAN :
                /\ running' = run + 1
                /\ queue' = n.rest
                /\ jobState' = [st EXCEPT ![n.job] = IF mk THEN "child" ELSE "throwing"]
                /\ everTempDir' = everTempDir \cup {n.job}
                /\ everSpawned' = IF mk THEN everSpawned \cup {n.job} ELSE everSpawned
    /\ UNCHANGED <<execConsumed, everQueued>>
    /\ UNCHANGED stopped
    /\ UNCHANGED nonQueueVars

\* stopExecution(executionId) of the client: POST /api/stop-execution. The
\* backend mounts no such route, the request is answered by the 404 handler
\* and touches neither the queue nor a child.
StopExecution(j) ==
    /\ stopped.job = 0
    /\ jobState[j] \in {"queued", "child"}
    /\ stopped' = [job |-> j, at |-> IF jobState[j] = "queued" THEN "queued"
                                     ELSE "running"]
    /\ UNCHANGED <<jobState, queue, running, execConsumed, everQueued, everTempDir,
                   everSpawned>>
    /\ UNCHANGED nonQueueVars

\* The limiter's window of 60 s ends: the key 'global' expires. (Before the
\* limiter has rejected anything the end of a window changes no outcome that
\* the start with an empty window does not show.)
ExecWindowExpires ==
    /\ execConsumed > EXEC_POINTS
    /\ execConsumed' = 0
    /\ UNCHANGED <<jobState, queue, running, everQueued, everTempDir, everSpawned>>
    /\ UNCHANGED stopped
    /\ UNCHANGED nonQueueVars

(***************************************************************************)
(* Sandbox runner (routes/api.js, POST /api/execute)                       *)
(***************************************************************************)
\* RateLimiterMemory({points: 100, duration: 60}) of middleware/rateLimit.js.
MW_POINTS == 100

\* Requests to POST /api/execute of one client address, numbered in the order
\* in which they arrive; each carries a valid token and a non-empty code.
MaxRequests == 4
Requests == 1..MaxRequests

\* The requests of the specifications that follow single runs in full detail.
MaxRunnerRequests == 2
RunnerRequests == 1..MaxRunnerRequests


\* A handler that is waiting on a user-code subprocess.
ChildLive(r) == reqPc[r] \in {"attempt1", "retry"}

\* The subprocesses of a request that have been spawned and have not exited:
\* the one the handler waits on and a killed first child whose 'exit' is
\* still to come.
LiveChildren(r) ==
    (IF ChildLive(r) THEN 1 ELSE 0) + (IF killedLive[r] THEN 1 ELSE 0)

NextArrival == IF \E r \in Requests : reqPc[r] = "idle"
               THEN CHOOSE r \in Requests :
                       reqPc[r] = "idle" /\ \A i \in Requests : i < r => reqPc[i] # "idle"
               ELSE 0

\* fs.rmSync(tempDirPath, ...) in try/catch: removed, or (it threw) a retry is
\* scheduled with setTimeout(..., 2000).
RmSync(ok) == IF ok THEN "removed" ELSE "retryPending"

\* The test that guards the second spawn: /EADDRINUSE/i.test(stderr), made
\* once, after the first attempt only.
RetryNeeded(stderrConflict, attempts) == stderrConflict /\ attempts = 1

\* The .catch of rateLimit: 429 is sent and next() is not called, so the route
\* handler never runs for the request.
RejectRequest(r) ==
    /\ reqPc' = [reqPc EXCEPT ![r] = "limited"]
    /\ UNCHANGED tempDir

InitExec ==
    /\ reqPc = [r \in Requests |-> "idle"]
    /\ reqRes = [r \in Requests |-> "none"]
    /\ resCount = [r \in Requests |-> 0]
    /\ conflict = [r \in Requests |-> FALSE]
    /\ timedOut = [r \in Requests |-> FALSE]
    /\ tempDir = [r \in Requests |-> "none"]
    /\ spawned = [r \in Requests |-> 0]
    /\ installFailed = [r \in Requests |-> FALSE]
    /\ timerArmed = [r \in Requests |-> FALSE]
    /\ killedLive = [r \in Requests |-> FALSE]

\* rateLimit middleware: consume rejected, 429 is sent and next() is not called.
RequestLimited(r) ==
    /\ r = NextArrival
    /\ ConsumeRejects(mwConsumed, MW_POINTS)
    /\ mwConsumed' = ConsumeCount(mwConsumed, MW_POINTS)
    /\ RejectRequest(r)
    /\ reqRes' = [reqRes EXCEPT ![r] = "429"]
    /\ resCount' = [resCount EXCEPT ![r] = @ + 1]
    /\ UNCHANGED <<conflict, timedOut, spawned, installFailed>>
    /\ UNCHANGED <<timerArmed, killedLive>>
    /\ UNCHANGED nonExecVars

\* The request passes the limiter and the handler runs up to `await npm install`:
\* mkdtempSync (a failure is answered with 500), the two files are written.
RequestAccepted(r, mk) ==
    /\ r = NextArrival
    /\ ~ConsumeRejects(mwConsumed, MW_POINTS)
    /\ mwConsumed' = ConsumeCount(mwConsumed, MW_POINTS)
    /\ IF mk
       THEN /\ reqPc' = [reqPc EXCEPT ![r] = "installing"]
            /\ tempDir' = [tempDir EXCEPT ![r] = "exists"]
            /\ UNCHANGED <<reqRes, resCount>>
       ELSE /\ reqPc' = [reqPc EXCEPT ![r] = "done"]
            /\ reqRes' = [reqRes EXCEPT ![r] = "failMkdtemp"]
            /\ resCount' = [resCount EXCEPT ![r] = @ + 1]
            /\ UNCHANGED tempDir
    /\ UNCHANGED <<conflict, timedOut, spawned, installFailed>>
    /\ UNCHANGED <<timerArmed, killedLive>>
    /\ UNCHANGED nonExecVars

\* The catch block: the workspace is removed (with one delayed retry) and the
\* error is answered with 400, success: false, message: error.message.
CatchBlock(r, rm, error) ==
    /\ reqPc' = [reqPc EXCEPT ![r] = "done"]
    /\ reqRes' = [reqRes EXCEPT ![r] = error]
    /\ resCount' = [resCount EXCEPT ![r] = @ + 1]
    /\ tempDir' = [tempDir EXCEPT ![r] = RmSync(rm)]
    /\ UNCHANGED <<conflict, timedOut, spawned>>

\* Clean up and res.json({success: true, output, stderr, timedOut}).
Respond(r, rm) ==
    /\ reqPc' = [reqPc EXCEPT ![r] = "done"]
    /\ reqRes' = [reqRes EXCEPT ![r] = "ok"]
    /\ resCount' = [resCount EXCEPT ![r] = @ + 1]
    /\ tempDir' = [tempDir EXCEPT ![r] = RmSync(rm)]
    /\ UNCHANGED <<conflict, spawned>>

\* An install failure that is not propagated: the handler goes on to spawn.
InstallFailsIgnored(r, rm) ==
    /\ reqPc[r] = "installing"
    /\ reqPc' = [reqPc EXCEPT ![r] = "attempt1"]
    /\ spawned' = [spawned EXCEPT ![r] = @ + 1]
    /\ installFailed' = [installFailed EXCEPT ![r] = TRUE]
    /\ timerArmed' = [timerArmed EXCEPT ![r] = TRUE]
    /\ UNCHANGED <<reqRes, resCount, conflict, timedOut, tempDir, mwConsumed, killedLive>>
    /\ UNCHANGED nonExecVars

\* execPromise('npm install') rejects: the await throws into the catch block.
InstallFails(r, rm) ==
    /\ reqPc[r] = "installing"
    /\ installFailed' = [installFailed EXCEPT ![r] = TRUE]
    /\ CatchBlock(r, rm, "failInstall")
    /\ UNCHANGED mwConsumed
    /\ UNCHANGED <<timerArmed, killedLive>>
    /\ UNCHANGED nonExecVars

\* npm install succeeded: exec('node index.js') with the 60 s timer.
InstallDone(r) ==
    /\ reqPc[r] = "installing"
    /\ reqPc' = [reqPc EXCEPT ![r] = "attempt1"]
    /\ spawned' = [spawned EXCEPT ![r] = @ + 1]
    /\ timerArmed' = [timerArmed EXCEPT ![r] = TRUE]
    /\ UNCHANGED <<reqRes, resCount, conflict, timedOut, tempDir, installFailed,
                   mwConsumed, killedLive>>
    /\ UNCHANGED nonExecVars

\* child.stderr 'data' of the first attempt carrying EADDRINUSE.
StderrConflict(r) ==
    /\ reqPc[r] = "attempt1"
    /\ ~conflict[r]
    /\ conflict' = [conflict EXCEPT ![r] = TRUE]
    /\ UNCHANGED <<reqPc, reqRes, resCount, timedOut, tempDir, spawned,
                   installFailed, mwConsumed>>
    /\ UNCHANGED <<timerArmed, killedLive>>
    /\ UNCHANGED nonExecVars

\* An attempt's promise has resolved: the handler either spawns the retry with
\* PORT=0 (no timer is set for it) or cleans up and responds.
AfterAttempt(r, rm) ==
    IF RetryNeeded(conflict[r], spawned[r])
    THEN /\ reqPc' = [reqPc EXCEPT ![r] = "retry"]
         /\ spawned' = [spawned EXCEPT ![r] = @ + 1]
         /\ UNCHANGED <<reqRes, resCount, conflict, tempDir>>
    ELSE Respond(r, rm)

\* child 'exit' of the first attempt before the timer: clearTimeout(timer).
ChildExits(r, rm) ==
    /\ reqPc[r] = "attempt1"
    /\ timerArmed' = [timerArmed EXCEPT ![r] = FALSE]
    /\ UNCHANGED timedOut
    /\ AfterAttempt(r, rm)
    /\ UNCHANGED <<installFailed, mwConsumed, killedLive>>
    /\ UNCHANGED nonExecVars

\* The 60 s timer fires: timedOut = true, child.kill('SIGKILL') and resolve
\* in the same callback, so the handler goes on before the child's 'exit'.
TimerFires(r, rm) ==
    /\ reqPc[r] = "attempt1"
    /\ timerArmed[r]
    /\ timerArmed' = [timerArmed EXCEPT ![r] = FALSE]
    /\ killedLive' = [killedLive EXCEPT ![r] = TRUE]
    /\ timedOut' = [timedOut EXCEPT ![r] = TRUE]
    /\ AfterAttempt(r, rm)
    /\ UNCHANGED <<installFailed, mwConsumed>>
    /\ UNCHANGED nonExecVars

\* child 'error' of the first attempt: clearTimeout(timer) and the promise
\* rejects into the catch block.
SpawnError(r, rm) ==
    /\ reqPc[r] = "attempt1"
    /\ timerArmed' = [timerArmed EXCEPT ![r] = FALSE]
    /\ CatchBlock(r, rm, "failSpawn")
    /\ UNCHANGED <<installFailed, mwConsumed, killedLive>>
    /\ UNCHANGED nonExecVars

\* child 'exit' of the retry.
RetryExits(r, rm) ==
    /\ reqPc[r] = "retry"
    /\ UNCHANGED timedOut
    /\ AfterAttempt(r, rm)
    /\ UNCHANGED <<installFailed, mwConsumed>>
    /\ UNCHANGED <<timerArmed, killedLive>>
    /\ UNCHANGED nonExecVars

\* child 'exit' of a first attempt that the timer has killed: the timer is
\* cleared again and resolve is called again, both without effect.
KilledChildExits(r) ==
    /\ killedLive[r]
    /\ killedLive' = [killedLive EXCEPT ![r] = FALSE]
    /\ UNCHANGED <<reqPc, reqRes, resCount, conflict, timedOut, tempDir, spawned,
                   installFailed, mwConsumed, timerArmed>>
    /\ UNCHANGED nonExecVars

\* The delayed second fs.rmSync, whose failure is swallowed.
RmRetry(r, ok) ==
    /\ tempDir[r] = "retryPending"
    /\ tempDir' = [tempDir EXCEPT ![r] = IF ok THEN "removed" ELSE "leaked"]
    /\ UNCHANGED <<reqPc, reqRes, resCount, conflict, timedOut, spawned,
                   installFailed, mwConsumed>>
    /\ UNCHANGED <<timerArmed, killedLive>>
    /\ UNCHANGED nonExecVars

\* The limiter's window of 60 s ends: the key of req.ip expires. (Before the
\* limiter has rejected anything the end of a window changes no outcome that
\* the start with an empty window does not show.)
MwWindowExpires ==
    /\ mwConsumed > MW_POINTS
    /\ mwConsumed' = 0
    /\ UNCHANGED <<reqPc, reqRes, resCount, conflict, timedOut, tempDir, spawned,
                   installFailed>>
    /\ UNCHANGED <<timerArmed, killedLive>>
    /\ UNCHANGED nonExecVars

(***************************************************************************)
(* Chat (index.js chatMessage handler, routes/sseRoutes.js)                *)
(***************************************************************************)
\* Messages that one sender submits to one room, numbered in the order of
\* their submission.
MaxMessages == 3
Messages == 1..MaxMessages

\* .limit(100) of the history query.
HISTORY_LIMIT == 100

\* Values of data.createdAt that a client may send (0 stands for none); they
\* are read on the same scale as the server's clock.
ClientTimes == 1..2

Range(s) == {s[i] : i \in 1..Len(s)}
Increasing(s) == \A i, j \in 1..Len(s) : i < j => s[i] < s[j]

NextMessage == IF \E m \in Messages : chatPc[m] = "idle"
               THEN CHOOSE m \in Messages :
                       chatPc[m] = "idle" /\ \A i \in Messages : i < m => chatPc[i] # "idle"
               ELSE 0

\* Place of a document in a list sorted by createdAt (equal keys keep the
\* order of insertion).
InsertByCreatedAt(sorted, m) ==
    LET k == Cardinality({i \in 1..Len(sorted) :
                            chatCreatedAt[sorted[i]] <= chatCreatedAt[m]})
    IN  SubSeq(sorted, 1, k) \o <<m>> \o SubSeq(sorted, k + 1, Len(sorted))

RECURSIVE SortByCreatedAt(_)
SortByCreatedAt(s) ==
    IF s = <<>>
    THEN <<>>
    ELSE InsertByCreatedAt(SortByCreatedAt(SubSeq(s, 1, Len(s) - 1)), s[Len(s)])

\* .limit(100) applied to the sorted cursor: its first 100 documents.
Limit(sorted) ==
    SubSeq(sorted, 1, IF Len(sorted) < HISTORY_LIMIT THEN Len(sorted)
                      ELSE HISTORY_LIMIT)

\* GET /chat/:projectId: Message.find({project}).sort({createdAt: 1}).limit(100).
History == Limit(SortByCreatedAt(stored))

InitChat ==
    /\ chatPc = [m \in Messages |-> "idle"]
    /\ chatVia = [m \in Messages |-> "socket"]
    /\ chatTemp = [m \in Messages |-> FALSE]
    /\ chatClientAt = [m \in Messages |-> 0]
    /\ chatCreatedAt = [m \in Messages |-> 0]
    /\ chatClock = 1
    /\ stored = <<>>
    /\ broadcasts = <<>>
    /\ cleared = FALSE
    /\ lastClear = [who |-> "none", found |-> FALSE, status |-> "none", to |-> {}]

\* The handler from the point where the sender's data is complete: a message
\* with a temporary id is emitted at once and not saved; for any other one the
\* document is built (createdAt of the client, or now) and message.save() is
\* awaited.
BuildMessage(m, temp, at) ==
    /\ chatCreatedAt' = [chatCreatedAt EXCEPT ![m] = IF at # 0 THEN at ELSE chatClock]
    /\ IF temp
       THEN /\ chatPc' = [chatPc EXCEPT ![m] = "done"]
            /\ broadcasts' = Append(broadcasts, m)
       ELSE /\ chatPc' = [chatPc EXCEPT ![m] = "saving"]
            /\ UNCHANGED broadcasts
    /\ UNCHANGED stored

\* socket.on('chatMessage') with projectId, text and sender._id present; when
\* the sender's name or email is missing, User.findById is awaited first.
SubmitSocket(m, temp, at, lookup) ==
    /\ m = NextMessage
    /\ chatVia' = [chatVia EXCEPT ![m] = "socket"]
    /\ chatTemp' = [chatTemp EXCEPT ![m] = temp]
    /\ chatClientAt' = [chatClientAt EXCEPT ![m] = at]
    /\ chatClock' = chatClock + 1
    /\ IF lookup
       THEN /\ chatPc' = [chatPc EXCEPT ![m] = "lookup"]
            /\ UNCHANGED <<chatCreatedAt, stored, broadcasts>>
       ELSE BuildMessage(m, temp, at)
    /\ UNCHANGED <<cleared, lastClear>>
    /\ UNCHANGED nonChatVars

\* POST /sse/chat/:projectId with a text, up to `await Project.findById`.
SubmitSse(m) ==
    /\ m = NextMessage
    /\ chatVia' = [chatVia EXCEPT ![m] = "sse"]
    /\ chatPc' = [chatPc EXCEPT ![m] = "lookup"]
    /\ chatClock' = chatClock + 1
    /\ UNCHANGED <<chatTemp, chatClientAt, chatCreatedAt, stored, broadcasts, cleared,
                   lastClear>>
    /\ UNCHANGED nonChatVars

\* The awaited lookup resolves (the sender has access to the project).
LookupDone(m) ==
    /\ chatPc[m] = "lookup"
    /\ chatClock' = chatClock + 1
    /\ BuildMessage(m, chatTemp[m], chatClientAt[m])
    /\ UNCHANGED <<chatVia, chatTemp, chatClientAt, cleared, lastClear>>
    /\ UNCHANGED nonChatVars

\* message.save() settles: the saved message is emitted as chatMessage to the
\* room; a failed save is answered with an error and nothing is emitted.
SaveDone(m, ok) ==
    /\ chatPc[m] = "saving"
    /\ chatClock' = chatClock + 1
    /\ IF ok
       THEN /\ stored' = Append(stored, m)
            /\ broadcasts' = Append(broadcasts, m)
            /\ chatPc' = [chatPc EXCEPT ![m] = "done"]
       ELSE /\ chatPc' = [chatPc EXCEPT ![m] = "failed"]
            /\ UNCHANGED <<stored, broadcasts>>
    /\ UNCHANGED <<chatVia, chatTemp, chatClientAt, chatCreatedAt, cleared, lastClear>>
    /\ UNCHANGED nonChatVars

\* Who may send DELETE /chat/:projectId with a valid token.
Clearers == {"owner", "collaborator", "other"}

\* The status the clear route answers with: project lookup, permission
\* check, Message.deleteMany (a rejection is answered by the catch block).
ClearStatus(who, found, ok) ==
    IF ~found THEN "404"
    ELSE IF who \notin {"owner", "collaborator"} THEN "403"
    ELSE IF ok THEN "200" ELSE "500"

\* Where broadcastToProject hands an event: to the socket.io room when an io
\* instance was passed (global.io is assigned nowhere), and to the SSE
\* connections registered for the project.
BroadcastTargets(io) == (IF io THEN {"ws"} ELSE {}) \cup {"sse"}

\* DELETE /chat/:projectId: on success Message.deleteMany and
\* broadcastToProject(projectId, 'chat_cleared', ...) without an io instance.
\* One clear request is followed per behaviour.
ClearChat(who, found, ok) ==
    /\ lastClear.status = "none"
    /\ lastClear' = [who |-> who, found |-> found,
                     status |-> ClearStatus(who, found, ok),
                     to |-> IF ClearStatus(who, found, ok) = "200"
                            THEN BroadcastTargets(FALSE) ELSE {}]
    /\ IF ClearStatus(who, found, ok) = "200"
       THEN /\ stored' = <<>>
            /\ cleared' = TRUE
            /\ chatClock' = chatClock + 1
       ELSE UNCHANGED <<stored, cleared, chatClock>>
    /\ UNCHANGED <<chatPc, chatVia, chatTemp, chatClientAt, chatCreatedAt, broadcasts>>
    /\ UNCHANGED nonChatVars

(***************************************************************************)
(* Execution log stream (routes/api.js data handlers)                      *)
(***************************************************************************)
\* Output chunks of one run, numbered in the order in which the subprocess
\* writes them.
MaxChunks == 3
Chunks == 1..MaxChunks

\* Delivery to one subscriber only.
EmitToOne(recv, room, c) ==
    IF room = {}
    THEN recv
    ELSE LET t == CHOOSE s \in room : TRUE
         IN  [recv EXCEPT ![t] = Append(@, c)]

\* socketIO.to(projectId).emit('executionLog', String(d)): the event goes to
\* every socket that is in the room when it is emitted.
EmitToRoom(recv, room, c) ==
    [s \in Sockets |-> IF s \in room THEN Append(recv[s], c) ELSE recv[s]]

\* The chunks of a sequence that were written to the given stream.
OfStream(s, stream) == SelectSeq(s, LAMBDA c : logStream[c] = stream)

InitLog ==
    /\ logWritten = 0
    /\ logStream = [c \in Chunks |-> "none"]
    /\ outPipe = <<>>
    /\ errPipe = <<>>
    /\ logRoom = {"s1", "s2"}
    /\ received = [s \in Sockets |-> <<>>]
    /\ wholeRun = {"s1", "s2"}

\* The subprocess, while it runs, writes its next chunk to stdout or to stderr.
ChildWrites(stream) ==
    /\ logWritten < MaxChunks
    /\ logChild = "running"
    /\ logWritten' = logWritten + 1
    /\ logStream' = [logStream EXCEPT ![logWritten + 1] = stream]
    /\ IF stream = "out"
       THEN outPipe' = Append(outPipe, logWritten + 1) /\ UNCHANGED errPipe
       ELSE errPipe' = Append(errPipe, logWritten + 1) /\ UNCHANGED outPipe
    /\ UNCHANGED <<logRoom, received, wholeRun>>
    /\ UNCHANGED nonLogVars

\* child.stdout.on('data'): the oldest unread chunk of stdout is emitted.
StdoutData ==
    /\ outPipe # <<>>
    /\ outPipe' = Tail(outPipe)
    /\ received' = EmitToRoom(received, logRoom, Head(outPipe))
    /\ UNCHANGED <<logWritten, logStream, errPipe, logRoom, wholeRun>>
    /\ UNCHANGED nonLogVars

\* child.stderr.on('data'): the oldest unread chunk of stderr is emitted.
StderrData ==
    /\ errPipe # <<>>
    /\ errPipe' = Tail(errPipe)
    /\ received' = EmitToRoom(received, logRoom, Head(errPipe))
    /\ UNCHANGED <<logWritten, logStream, outPipe, logRoom, wholeRun>>
    /\ UNCHANGED nonLogVars

\* socket.join(projectIdStr) of another socket while the run is under way.
LogJoin(s) ==
    /\ s \notin logRoom
    /\ logRoom' = logRoom \cup {s}
    /\ UNCHANGED <<logWritten, logStream, outPipe, errPipe, received, wholeRun>>
    /\ UNCHANGED nonLogVars

\* socket.leave(projectId), or the socket disconnects.
LogLeave(s) ==
    /\ s \in logRoom
    /\ logRoom' = logRoom \ {s}
    /\ wholeRun' = wholeRun \ {s}
    /\ UNCHANGED <<logWritten, logStream, outPipe, errPipe, received>>
    /\ UNCHANGED nonLogVars

(***************************************************************************)
(* Job body of executeCode (executionService.js)                           *)
(***************************************************************************)
\* Job bodies followed in full detail.
MaxRuns == 2
Runs == 1..MaxRuns

\* Chunks of output a run may capture before it ends.
MaxOutput == 2

\* The port a child passes to app.listen and prints after SERVER_STARTED:.
Ports == {3000}

\* What one 'data' event of child.stdout holds: output without the marker, a
\* chunk that begins with the marker line, or earlier output and the marker
\* line read from the pipe in one chunk.
StdoutChunks == {"plain", "marker", "plainThenMarker"}

\* dataStr.startsWith('SERVER_STARTED:')
StartsWithMarker(chunk) == chunk = "marker"

\* The object the job body returns after the child's 'exit': a code other
\* than 0 (null when the child was killed) of a child that has not announced
\* a server puts a line into errorOutput, and success is !errorOutput.
RunResult(end, serverStarted, errorOutput, output, port) ==
    LET err == errorOutput \/ (end # "exit0" /\ ~serverStarted)
    IN  [success |-> ~err, error |-> err, output |-> output, port |-> port]

NoResult == [success |-> FALSE, error |-> FALSE, output |-> 0, port |-> 0]

\* The finally block of the job body: fs.rmSync(tempDir, ...); when it throws
\* the error is logged and nothing else is done.
RmSyncLogged(ok) == IF ok THEN "removed" ELSE "leaked"

InitRun ==
    /\ runPc = [r \in Runs |-> "idle"]
    /\ runServerStarted = [r \in Runs |-> FALSE]
    /\ runErrorOutput = [r \in Runs |-> FALSE]
    /\ runOutput = [r \in Runs |-> 0]
    /\ runEnd = [r \in Runs |-> "none"]
    /\ runResult = [r \in Runs |-> NoResult]
    /\ runPort = [r \in Runs |-> 0]
    /\ runPrinted = [r \in Runs |-> FALSE]
    /\ runDir = [r \in Runs |-> "none"]

\* mkdirSync(tempDir), writeFileSync, execa('node', [tempFile],
\* {timeout: EXECUTION_TIMEOUT, ...}).
RunSpawn(r) ==
    /\ runPc[r] = "idle"
    /\ runPc' = [runPc EXCEPT ![r] = "child"]
    /\ runDir' = [runDir EXCEPT ![r] = "exists"]
    /\ UNCHANGED <<runServerStarted, runErrorOutput, runOutput, runEnd, runResult,
                   runPort, runPrinted>>
    /\ UNCHANGED nonRunVars

\* child.stdout.on('data'): a chunk that starts with SERVER_STARTED: marks the
\* server as started and its port is parsed; every chunk adds to output.
RunStdout(r, chunk, port) ==
    /\ runPc[r] = "child"
    /\ runOutput[r] < MaxOutput
    /\ runOutput' = [runOutput EXCEPT ![r] = @ + 1]
    /\ runPrinted' = [runPrinted EXCEPT ![r] = @ \/ chunk # "plain"]
    /\ IF StartsWithMarker(chunk)
       THEN /\ runServerStarted' = [runServerStarted EXCEPT ![r] = TRUE]
            /\ runPort' = [runPort EXCEPT ![r] = port]
       ELSE UNCHANGED <<runServerStarted, runPort>>
    /\ UNCHANGED <<runPc, runErrorOutput, runEnd, runResult, runDir>>
    /\ UNCHANGED nonRunVars

\* child.stderr.on('data'): the chunk goes to errorOutput and to output.
RunStderr(r) ==
    /\ runPc[r] = "child"
    /\ runOutput[r] < MaxOutput
    /\ runOutput' = [runOutput EXCEPT ![r] = @ + 1]
    /\ runErrorOutput' = [runErrorOutput EXCEPT ![r] = TRUE]
    /\ UNCHANGED <<runPc, runServerStarted, runEnd, runResult, runPort, runPrinted,
                   runDir>>
    /\ UNCHANGED nonRunVars

\* child.on('exit'): the child exited with code 0, with another code, or was
\* killed when the execa timeout elapsed; the result is returned and the
\* finally block removes the directory.
RunExit(r, end, rm) ==
    /\ runPc[r] = "child"
    /\ runPc' = [runPc EXCEPT ![r] = "done"]
    /\ runEnd' = [runEnd EXCEPT ![r] = end]
    /\ runResult' = [runResult EXCEPT ![r] =
           RunResult(end, runServerStarted[r], runErrorOutput[r], runOutput[r],
                     runPort[r])]
    /\ runDir' = [runDir EXCEPT ![r] = RmSyncLogged(rm)]
    /\ UNCHANGED <<runServerStarted, runErrorOutput, runOutput, runPort, runPrinted>>
    /\ UNCHANGED nonRunVars

(***************************************************************************)
(* Event streams and history query (routes/sseRoutes.js)                   *)
(***************************************************************************)
\* Documents a room may hold when its history is queried.
MaxStored == 102

\* Event-stream connections to one project.
Conns == {"c1", "c2", "c3"}

\* Values of Date.now() at which connections are opened.
MaxClock == 3
Clock == 1..MaxClock

\* Events published to the project, numbered in the order of publication.
MaxEvents == 2

\* collaborator-update events followed on one event stream.
MaxUpdates == 3

\* The lists getCollaboratorsData may return: [] (no project, or the lookup
\* threw) and two lists that differ.
Snapshots == {"empty", "A", "B"}

\* .sort({createdAt: 1}) over a set of creation times.
RECURSIVE Ascending(_)
Ascending(S) ==
    IF S = {}
    THEN <<>>
    ELSE LET m == CHOOSE x \in S : \A y \in S : x <= y
         IN  <<m>> \o Ascending(S \ {m})

\* The connections a broadcast stops at when a failed write ends the loop.
WrittenUntilThrow(conns) ==
    {conns[i] : i \in {k \in 1..Len(conns) :
                          \A j \in 1..k : sseConn[conns[j]] = "open"}}

\* The connections whose res.write succeeds in the loop of broadcastToProject:
\* each write has its own try/catch, so a throwing write skips that
\* connection only.
Written(conns) ==
    {conns[i] : i \in {k \in 1..Len(conns) : sseConn[conns[k]] = "open"}}

\* The loop of cleanup: `if (conn.id === connectionId) { delete; break }`.
DeleteFirstWithId(conns, id) ==
    LET hits == {i \in 1..Len(conns) : connectionId[conns[i]] = id}
    IN  IF hits = {}
        THEN conns
        ELSE LET k == CHOOSE i \in hits : \A j \in hits : i <= j
             IN  SubSeq(conns, 1, k - 1) \o SubSeq(conns, k + 1, Len(conns))

InitSse ==
    /\ roomDocs = {}
    /\ listed = <<>>
    /\ activeConnections = <<>>
    /\ sseConn = [c \in Conns |-> "new"]
    /\ sseReceived = [c \in Conns |-> <<>>]
    /\ sseResponses = <<>>
    /\ dbCollaborators = "A"
    /\ lastCollaborators = "empty"
    /\ fetches = {}
    /\ sseUpdates = <<>>
    /\ connectionId = [c \in Conns |-> 0]

\* message.save() of a new message: its createdAt is the server's clock.
HistSave ==
    /\ Cardinality(roomDocs) < MaxStored
    /\ roomDocs' = roomDocs \cup {Cardinality(roomDocs) + 1}
    /\ UNCHANGED <<listed, activeConnections, sseConn, sseReceived, sseResponses,
                   dbCollaborators, lastCollaborators, fetches, sseUpdates, connectionId>>
    /\ UNCHANGED nonSseVars

\* GET /chat/:projectId by an identity with access to the project.
HistList ==
    /\ listed' = Limit(Ascending(roomDocs))
    /\ UNCHANGED <<roomDocs, activeConnections, sseConn, sseReceived, sseResponses,
                   dbCollaborators, lastCollaborators, fetches, sseUpdates, connectionId>>
    /\ UNCHANGED nonSseVars

\* GET /sse/events/:projectId for an existing project: the connection gets
\* Date.now().toString() as its id and is added to the project's set. The
\* clock does not go back, and it need not have advanced since the last open.
SseOpen(c, now) ==
    /\ sseConn[c] = "new"
    /\ \A d \in Conns : connectionId[d] <= now
    /\ sseConn' = [sseConn EXCEPT ![c] = "open"]
    /\ connectionId' = [connectionId EXCEPT ![c] = now]
    /\ activeConnections' = Append(activeConnections, c)
    /\ UNCHANGED <<roomDocs, listed, sseReceived, sseResponses, dbCollaborators,
                   lastCollaborators, fetches, sseUpdates>>
    /\ UNCHANGED nonSseVars

\* The response of a connection starts to throw on write.
SseBreaks(c) ==
    /\ sseConn[c] = "open"
    /\ sseConn' = [sseConn EXCEPT ![c] = "broken"]
    /\ UNCHANGED <<roomDocs, listed, activeConnections, sseReceived, sseResponses,
                   dbCollaborators, lastCollaborators, fetches, sseUpdates, connectionId>>
    /\ UNCHANGED nonSseVars

\* req 'close': cleanup walks the project's set in insertion order and
\* deletes the first connection whose id equals the closing connection's id.
SseClose(c) ==
    /\ sseConn[c] \in {"open", "broken"}
    /\ sseConn' = [sseConn EXCEPT ![c] = "closed"]
    /\ activeConnections' = DeleteFirstWithId(activeConnections, connectionId[c])
    /\ UNCHANGED <<roomDocs, listed, sseReceived, sseResponses, dbCollaborators,
                   lastCollaborators, fetches, sseUpdates, connectionId>>
    /\ UNCHANGED nonSseVars

\* POST /chat/:projectId after message.save(): broadcastToProject writes the
\* event to every connection of the project, then 201 is sent. The catch of a
\* failed write stores a copy of the set from which nothing was deleted.
Publish ==
    /\ Len(sseResponses) < MaxEvents
    /\ sseReceived' = [c \in Conns |->
           IF c \in Written(activeConnections)
           THEN Append(sseReceived[c], Len(sseResponses) + 1)
           ELSE sseReceived[c]]
    /\ sseResponses' = Append(sseResponses, "201")
    /\ UNCHANGED <<roomDocs, listed, activeConnections, sseConn, dbCollaborators,
                   lastCollaborators, fetches, sseUpdates, connectionId>>
    /\ UNCHANGED nonSseVars

\* The project's owner or collaborators change in the database.
DbChanges(snap) ==
    /\ snap # dbCollaborators
    /\ dbCollaborators' = snap
    /\ UNCHANGED <<roomDocs, listed, activeConnections, sseConn, sseReceived,
                   sseResponses, lastCollaborators, fetches, sseUpdates, connectionId>>
    /\ UNCHANGED nonSseVars

\* sendCollaboratorUpdate (kind "refresh": first call and every 30 s) or
\* onGetCollaborators (kind "get") up to `await getCollaboratorsData()`,
\* which returns [] when the lookup fails.
CollabFetch(kind, ok) ==
    /\ Len(sseUpdates) < MaxUpdates
    /\ fetches' = fetches \cup
           {[kind |-> kind, snap |-> IF ok THEN dbCollaborators ELSE "empty"]}
    /\ UNCHANGED <<roomDocs, listed, activeConnections, sseConn, sseReceived,
                   sseResponses, dbCollaborators, lastCollaborators, sseUpdates,
                   connectionId>>
    /\ UNCHANGED nonSseVars

\* The rest of the handler: sendCollaboratorUpdate sends the snapshot when
\* its JSON differs from lastCollaborators and remembers it;
\* onGetCollaborators sends it and remembers nothing.
CollabSend(f) ==
    /\ f \in fetches
    /\ fetches' = fetches \ {f}
    /\ Len(sseUpdates) < MaxUpdates
    /\ IF f.kind = "refresh"
       THEN IF f.snap # lastCollaborators
            THEN /\ lastCollaborators' = f.snap
                 /\ sseUpdates' = Append(sseUpdates, f.snap)
            ELSE UNCHANGED <<lastCollaborators, sseUpdates>>
       ELSE /\ sseUpdates' = Append(sseUpdates, f.snap)
            /\ UNCHANGED lastCollaborators
    /\ UNCHANGED <<roomDocs, listed, activeConnections, sseConn, sseReceived,
                   sseResponses, dbCollaborators, connectionId>>
    /\ UNCHANGED nonSseVars

(***************************************************************************)
(* Chat submissions and their author (index.js, routes/sseRoutes.js)       *)
(***************************************************************************)
\* Chat submissions followed in one behaviour.
MaxPosts == 2

\* data.sender._id of a chatMessage payload: absent, or the id of any user.
ClaimedSenders == {UserOf(s) : s \in Sockets} \cup {"none"}

\* An author id that is taken from the payload first, as name and email are.
SenderIdFromPayload(socketUser, claimed) ==
    IF claimed # "none" THEN claimed ELSE socketUser

\* const userId = socket.user?.userId || data.sender?._id. User.findById(userId)
\* may be spread over the user object afterwards; its _id is that same id.
SenderId(socketUser, claimed) ==
    IF socketUser # "none" THEN socketUser ELSE claimed

\* What was done with one submission.
Post(via, s, p, claimed, author, saved, emitted) ==
    [via |-> via, s |-> s, p |-> p, claimed |-> claimed, author |-> author,
     saved |-> saved, emitted |-> emitted]

InitPost == posts = <<>>

\* socket.on('chatMessage') of an accepted socket with projectId and text: a
\* payload without sender._id is answered with an error; a message with a
\* temporary id is emitted and not saved; any other one is saved and, when
\* the save succeeded, emitted to the room named in the payload.
ChatMessage(s, p, claimed, temp, ok) ==
    /\ Len(posts) < MaxPosts
    /\ posts' = Append(posts,
           IF claimed = "none"
           THEN Post("socket", s, p, claimed, "none", FALSE, FALSE)
           ELSE Post("socket", s, p, claimed, SenderId(UserOf(s), claimed),
                     ~temp /\ ok, temp \/ ok))
    /\ UNCHANGED nonPostVars

\* POST /chat/:projectId with the token of the user of s: the message is
\* saved with sender._id = req.user.userId and handed to broadcastToProject.
PostChat(s, p, ok) ==
    /\ Len(posts) < MaxPosts
    /\ posts' = Append(posts, Post("post", s, p, "none", UserOf(s), ok, ok))
    /\ UNCHANGED nonPostVars

\* POST /sse/chat/:projectId with the token of the user of s: 404 without a
\* project document, 403 without access, else saved and broadcast.
SseChat(s, p, ok) ==
    /\ Len(posts) < MaxPosts
    /\ posts' = Append(posts,
           IF p \notin Projects \/ ~HasAccess(s, p)
           THEN Post("sse", s, p, "none", "none", FALSE, FALSE)
           ELSE Post("sse", s, p, "none", UserOf(s), ok, ok))
    /\ UNCHANGED nonPostVars

(***************************************************************************)
(* End of a run of POST /api/execute (routes/api.js)                       *)
(***************************************************************************)
InitEnd ==
    /\ logChild = "running"
    /\ logResponse = FALSE

\* The 60 s timer of the first attempt: child.kill('SIGKILL') and resolve(null).
\* The data handlers stay attached and what the pipes hold stays readable.
TimerKills ==
    /\ logChild = "running"
    /\ logChild' = "killed"
    /\ UNCHANGED logResponse
    /\ UNCHANGED nonEndVars

\* child.on('exit'): clearTimeout and resolve(null). 'exit' does not wait for
\* the stdio streams of the child to be drained and closed.
ChildExit ==
    /\ logChild = "running"
    /\ logChild' = "exited"
    /\ UNCHANGED logResponse
    /\ UNCHANGED nonEndVars

\* The rest of the route once the promise has resolved and stderr holds no
\* EADDRINUSE: rmSync, Project.findByIdAndUpdate and res.json.
RouteResponds ==
    /\ logChild # "running"
    /\ ~logResponse
    /\ logResponse' = TRUE
    /\ UNCHANGED logChild
    /\ UNCHANGED nonEndVars

(***************************************************************************)
(* Specifications                                                          *)
(***************************************************************************)
NextPresence ==
    \/ \E s \in Sockets, h \in Handshakes : Connect(s, h)
    \/ \E s \in Sockets, p \in ProjectIds : JoinProject(s, p)
    \/ \E s \in Sockets, p \in ProjectIds : JoinResolved(s, p)
    \/ \E s \in Sockets, p \in ProjectIds : LeaveProject(s, p)
    \/ \E s \in Sockets : Disconnect(s)

NextQueue ==
    \/ \E j \in Jobs : ExecuteCodeLimited(j)
    \/ \E j \in Jobs : ExecuteCode(j)
    \/ \E j \in Jobs : JobSettled(j)
    \/ ExecWindowExpires

NextCancel ==
    \/ NextQueue
    \/ \E j \in Jobs : StopExecution(j)

\* The steps of the requests R of POST /api/execute.
ExecStepOf(R) ==
    \/ \E r \in R : RequestLimited(r)
    \/ \E r \in R, mk \in BOOLEAN : RequestAccepted(r, mk)
    \/ \E r \in R, rm \in BOOLEAN : InstallFails(r, rm)
    \/ \E r \in R : InstallDone(r)
    \/ \E r \in R : StderrConflict(r)
    \/ \E r \in R, rm \in BOOLEAN : ChildExits(r, rm)
    \/ \E r \in R, rm \in BOOLEAN : TimerFires(r, rm)
    \/ \E r \in R, rm \in BOOLEAN : SpawnError(r, rm)
    \/ \E r \in R, rm \in BOOLEAN : RetryExits(r, rm)
    \/ \E r \in R, ok \in BOOLEAN : RmRetry(r, ok)
    \/ \E r \in R : KilledChildExits(r)
    \/ MwWindowExpires

\* Steps that the runtime takes without waiting on the user's code: npm
\* install ends, the armed 60 s timer fires, the delayed rmSync runs, a child
\* that was sent SIGKILL exits.
ExecDue(r) ==
    \/ \E rm \in BOOLEAN : InstallFails(r, rm)
    \/ InstallDone(r)
    \/ \E rm \in BOOLEAN : TimerFires(r, rm)
    \/ \E ok \in BOOLEAN : RmRetry(r, ok)
    \/ KilledChildExits(r)

NextExec == ExecStepOf(Requests)

NextRunner == ExecStepOf(RunnerRequests)

RateRequests == {1}

NextRate ==
    \/ ExecStepOf(RateRequests)
    \/ NextQueue

NextLog ==
    \/ \E stream \in {"out", "err"} : ChildWrites(stream)
    \/ StdoutData
    \/ StderrData
    \/ \E s \in Sockets : LogJoin(s)
    \/ \E s \in Sockets : LogLeave(s)

NextLogEnd ==
    \/ \E stream \in {"out", "err"} : ChildWrites(stream)
    \/ StdoutData
    \/ StderrData
    \/ \E s \in Sockets : LogLeave(s)
    \/ TimerKills
    \/ ChildExit
    \/ RouteResponds

NextRun ==
    \/ \E r \in Runs : RunSpawn(r)
    \/ \E r \in Runs, chunk \in StdoutChunks, port \in Ports : RunStdout(r, chunk, port)
    \/ \E r \in Runs : RunStderr(r)
    \/ \E r \in Runs, end \in {"exit0", "exitN", "timeout"}, rm \in BOOLEAN :
          RunExit(r, end, rm)

NextHist ==
    \/ HistSave
    \/ HistList

NextBroadcast ==
    \/ \E c \in Conns, now \in Clock : SseOpen(c, now)
    \/ \E c \in Conns : SseBreaks(c)
    \/ \E c \in Conns : SseClose(c)
    \/ Publish

NextCollab ==
    \/ \E snap \in Snapshots \ {"empty"} : DbChanges(snap)
    \/ \E kind \in {"refresh", "get"}, ok \in BOOLEAN : CollabFetch(kind, ok)
    \/ \E kind \in {"refresh", "get"}, snap \in Snapshots :
          CollabSend([kind |-> kind, snap |-> snap])

NextPost ==
    \/ \E s \in Sockets, p \in ProjectIds, claimed \in ClaimedSenders,
          temp, ok \in BOOLEAN : ChatMessage(s, p, claimed, temp, ok)
    \/ \E s \in Sockets, p \in ProjectIds, ok \in BOOLEAN : PostChat(s, p, ok)
    \/ \E s \in Sockets, p \in ProjectIds, ok \in BOOLEAN : SseChat(s, p, ok)

NextChat ==
    \/ \E m \in Messages, temp \in BOOLEAN, at \in {0} \cup ClientTimes,
          lookup \in BOOLEAN : SubmitSocket(m, temp, at, lookup)
    \/ \E m \in Messages : SubmitSse(m)
    \/ \E m \in Messages : LookupDone(m)
    \/ \E m \in Messages, ok \in BOOLEAN : SaveDone(m, ok)
    \/ \E who \in Clearers, found, ok \in BOOLEAN : ClearChat(who, found, ok)

\* Every specification starts from the state after module load; the limiter
\* of the sub-system it runs has an empty window or a partly used one.
InitAll ==
    /\ InitPresence
    /\ InitQueue
    /\ InitExec
    /\ InitChat
    /\ InitLog
    /\ InitRun
    /\ InitSse
    /\ InitPost
    /\ InitEnd

Init ==
    /\ InitAll
    /\ execConsumed = 0
    /\ mwConsumed = 0

InitQueueSpec ==
    /\ InitAll
    /\ execConsumed \in {0, EXEC_POINTS - LimiterSlack}
    /\ mwConsumed = 0

\* (the window of the one request's address is empty or used up)
InitRateSpec ==
    /\ InitAll
    /\ execConsumed \in {0, EXEC_POINTS - LimiterSlack}
    /\ mwConsumed \in {0, MW_POINTS}

\* (the window of the requests' address is empty or has one point left)
InitExecSpec ==
    /\ InitAll
    /\ execConsumed = 0
    /\ mwConsumed \in {0, MW_POINTS - 1}

SpecPresence == Init /\ [][NextPresence]_vars
SpecQueue == InitQueueSpec /\ [][NextQueue]_vars
SpecCancel == InitQueueSpec /\ [][NextCancel]_vars
SpecExec == InitExecSpec /\ [][NextExec]_vars
SpecRunner == InitExecSpec /\ [][NextRunner]_vars
SpecChat == Init /\ [][NextChat]_vars
SpecLog == Init /\ [][NextLog]_vars
SpecRun == Init /\ [][NextRun]_vars
SpecHist == Init /\ [][NextHist]_vars
SpecBroadcast == Init /\ [][NextBroadcast]_vars
SpecCollab == Init /\ [][NextCollab]_vars
SpecPost == Init /\ [][NextPost]_vars
SpecLogEnd == Init /\ [][NextLogEnd]_vars

\* Both submission paths side by side: the calls of executeCode and the first
\* request to POST /api/execute.
SpecRate == InitRateSpec /\ [][NextRate]_vars

\* npm install terminates, armed timers fire and delayed callbacks run; nothing
\* makes a user-code subprocess exit.
FairSpecExec == SpecExec /\ \A r \in Requests : WF_vars(ExecDue(r))

\* Every job body that has started eventually settles (the proviso of the
\* scheduler's progress guarantee: the execa timeout ends every child).
FairSpecQueue == SpecQueue /\ \A j \in Jobs : WF_vars(JobSettled(j))

\* C1: for every room, the collaborator list holds exactly one entry for each
\* socket that has joined the room and has not since left it or disconnected:
\* no duplicate socket, no ghost, no joined socket missing.
C1_PresenceExact ==
    \A p \in ProjectIds :
        /\ SocketIds(collaboratorsByProject[p]) = joined[p]
        /\ Len(collaboratorsByProject[p]) = Cardinality(joined[p])


\* C3: jobs are admitted in submission order: whenever the body of a job has
\* started, no job added before it is still waiting in the queue.
C3_FifoAdmission ==
    \A i, j \in Jobs :
        (i < j /\ Started(j)) => jobState[i] # "queued"

C3_Witness ==
    /\ jobState[MaxJobs] = "child"
    /\ \E i \in Jobs : jobState[i] = "rejected"
    /\ \E i \in Jobs : jobState[i] = "resolved"

\* C4: provided every running job settles, every job handed to add eventually
\* starts; and a rejecting job releases its slot and starts the head of the
\* queue exactly as a resolving one does.
C4_EveryJobStarts ==
    /\ \A j \in Jobs : (jobState[j] = "queued") ~> Started(j)
    /\ [][\A j \in Jobs :
            (InBody(j) /\ jobState'[j] \in {"resolved", "rejected"}) =>
                IF queue = <<>>
                THEN running' = running - 1 /\ queue' = queue
                ELSE /\ running' = running
                     /\ queue' = Tail(queue)
                     /\ jobState'[Head(queue)] \in {"child", "throwing"}]_vars

C4_Witness ==
    /\ \E j \in Jobs : jobState[j] = "rejected"
    /\ Started(MaxJobs)
    /\ running = MAX_CONCURRENT


\* C2: at no instant are more than MAX_CONCURRENT user-code subprocesses of
\* POST /api/execute running.
C2_AtMostCRunning ==
    Cardinality({r \in Requests : ChildLive(r)}) <= MAX_CONCURRENT

\* C5: a submission rejected by a rate limiter is rejected before anything
\* else happens: a limited call of executeCode was never queued, holds no
\* slot of the running count, has no workspace and no subprocess; a request
\* answered 429 has no workspace and no subprocess and gets no other answer.
C5_RejectedBeforeAnything ==
    /\ \A j \in Jobs :
          jobState[j] = "limited" =>
              /\ j \notin everQueued
              /\ j \notin everTempDir
              /\ j \notin everSpawned
    /\ running = Cardinality({j \in Jobs : InBody(j)})
    /\ \A r \in Requests :
          reqRes[r] = "429" =>
              /\ reqPc[r] = "limited"
              /\ tempDir[r] = "none"
              /\ spawned[r] = 0
              /\ resCount[r] = 1

C5_Witness ==
    /\ \E j \in Jobs : jobState[j] = "limited"
    /\ \E j \in Jobs : InBody(j)
    /\ \E r \in Requests : reqRes[r] = "429"

\* C6: once the timeout of a request has elapsed its subprocess is killed and
\* the request completes with timedOut = true; no subprocess of the request
\* is running after the timeout.
C6_TimeoutEndsJob ==
    \A r \in Requests :
        timedOut[r] => (~ChildLive(r) /\ reqPc[r] = "done" /\ reqRes[r] = "ok")

\* C7 as stated: after a failed install no subprocess is ever spawned, the
\* workspace directory is removed (at once or by the delayed retry) and the
\* request ends failed with the install's error text.
C7_InstallFailureRemoves ==
    \A r \in Requests :
        installFailed[r] =>
            /\ spawned[r] = 0
            /\ reqPc[r] = "done"
            /\ reqRes[r] = "failInstall"
            /\ tempDir[r] \in {"removed", "retryPending"}

\* C7 (amended): after a failed install no subprocess is ever spawned, the
\* request ends failed with the install's error text, and the removal of the
\* workspace directory has been attempted: the directory is removed, or its
\* removal threw and is retried once, or both attempts threw and it is left.
C7_InstallFailure ==
    \A r \in Requests :
        installFailed[r] =>
            /\ spawned[r] = 0
            /\ ~ChildLive(r)
            /\ reqPc[r] = "done"
            /\ reqRes[r] = "failInstall"
            /\ resCount[r] = 1
            /\ tempDir[r] \in {"removed", "retryPending", "leaked"}

C7_Witness ==
    \E r, q \in Requests :
        /\ installFailed[r] /\ tempDir[r] = "leaked"
        /\ installFailed[q] /\ tempDir[q] = "removed"

\* C8: a first attempt whose stderr reports EADDRINUSE is re-run once and never
\* a third time, and whatever the retry does the request reaches its end.
C8_OneRetryThenTerminal ==
    /\ [](\A r \in Requests : spawned[r] <= 2)
    /\ \A r \in Requests : (reqPc[r] = "retry") ~> (reqPc[r] = "done")

\* C9: every request that passed the limiter gets exactly one response,
\* whatever its subprocess does.
C9_ExactlyOneResponse ==
    /\ [](\A r \in Requests : resCount[r] <= 1)
    /\ \A r \in Requests :
          (reqPc[r] \in {"installing", "attempt1", "retry"}) ~>
              (reqPc[r] = "done" /\ resCount[r] = 1)

\* C10: until the room's history is cleared, the accepted messages of the
\* sender appear in the order of their submission in the chatMessage events
\* emitted to the room and in the history returned by the list query, and
\* every message that was emitted is in that history.
C10_ChatRoundTrip ==
    ~cleared =>
        /\ Increasing(broadcasts)
        /\ Increasing(History)
        /\ Range(broadcasts) \subseteq Range(History)
        /\ \A m \in Messages :
              chatPc[m] = "done" => (m \in Range(broadcasts) /\ m \in Range(History))

\* C11 as stated: all sockets subscribed to the job's room for the whole run
\* have received the same sequence of executionLog events, and that sequence
\* is in the order in which the subprocess wrote the output.
C11_SameLogInWriteOrder ==
    \A s, t \in wholeRun :
        /\ received[s] = received[t]
        /\ Increasing(received[s])

\* C11 (amended): all sockets subscribed to the job's room for the whole run
\* have received the same sequence of executionLog events; it holds every
\* chunk the handlers have read, and the chunks of stdout are in the order in
\* which the subprocess wrote them, and so are the chunks of stderr (the
\* order between the two streams is the order in which the handlers ran).
C11_SameLogPerStream ==
    \A s, t \in wholeRun :
        /\ received[s] = received[t]
        /\ Range(received[s]) =
               (1..logWritten) \ (Range(outPipe) \cup Range(errPipe))
        /\ Increasing(OfStream(received[s], "out"))
        /\ Increasing(OfStream(received[s], "err"))

C11_Witness ==
    /\ wholeRun = {"s1", "s2"}
    /\ Len(received["s1"]) = MaxChunks
    /\ ~Increasing(received["s1"])
    /\ "s3" \in logRoom
    /\ received["s3"] # received["s1"]

\* C12: a handshake lets a socket through only with a token that verifies,
\* names a userId and has a user record; every other socket is refused, and
\* of a refused socket no join or leave handler has run or is waiting, and it
\* is in no room and in no room's collaborator list.
C12_UnauthenticatedRefused ==
    /\ last.op = "connect" => last.arg = "valid"
    /\ (last.op \in {"connect", "refused"} /\ last.arg # "valid") =>
           conn[last.s] = "refused"
    /\ \A s \in Sockets :
          conn[s] = "refused" =>
              /\ last.s = s => last.op = "refused"
              /\ \A p \in ProjectIds :
                    /\ <<s, p>> \notin pendingJoin
                    /\ s \notin rooms[p]
                    /\ s \notin SocketIds(collaboratorsByProject[p])

C12_Witness ==
    /\ conn["s1"] = "refused"
    /\ last = Handled("refused", "s2", "noUser")
    /\ "s3" \in SocketIds(collaboratorsByProject["P2"])

\* C13: a join-project of an identity that is neither owner nor collaborator
\* of a non-public project is refused: the step that handles it leaves the
\* room, the collaborator lists and the joined sockets as they were and emits
\* nothing, and such a socket is never in the room nor in the room's list.
C13_DeniedJoinRefused ==
    /\ [](\A s \in Sockets, p \in Projects :
            (Owner(p) # UserOf(s) /\ UserOf(s) \notin Collaborators(p) /\ ~IsPublic(p))
                => /\ s \notin rooms[p]
                   /\ s \notin SocketIds(collaboratorsByProject[p]))
    /\ [][last'.op = "joinDenied" =>
            /\ rooms' = rooms
            /\ collaboratorsByProject' = collaboratorsByProject
            /\ joined' = joined
            /\ emits' = {}]_vars

C13_Witness ==
    /\ last = Handled("joinDenied", "s3", "P1")
    /\ collaboratorsByProject["P1"] # <<>>
    /\ "s3" \in rooms["P2"]

\* C14: join is idempotent per connection: after a join of a socket the room
\* lists the socket exactly once, and a join of a socket that is already
\* listed in the room leaves the set of listed sockets and the length of the
\* list as they were.
C14_JoinIdempotent ==
    [][\A s \in Sockets, p \in Projects :
            (last'.op \in {"join", "rejoin"} /\ last'.s = s /\ last'.arg = p) =>
                LET before == collaboratorsByProject[p]
                    after == collaboratorsByProject'[p]
                IN  /\ Len(SelectSeq(after, LAMBDA u : u.socketId = s)) = 1
                    /\ s \in SocketIds(before) =>
                           /\ SocketIds(after) = SocketIds(before)
                           /\ Len(after) = Len(before)]_vars

C14_Witness ==
    /\ last = Handled("rejoin", "s1", "P2")
    /\ Len(collaboratorsByProject["P2"]) = 2
    /\ SocketIds(collaboratorsByProject["P2"]) = {"s1", "s3"}

\* C15: a leave-project removes the entry of the leaving socket; when the
\* room's list holds another entry of the same identity, that entry stays
\* listed and no collaborator-left is announced; when it holds none and the
\* socket was listed, collaborator-left is announced.
C15_LeaveAnnouncesLastOnly ==
    [][\A s \in Sockets, p \in ProjectIds :
            last' = Handled("leave", s, p) =>
                LET before == collaboratorsByProject[p]
                    after == collaboratorsByProject'[p]
                    others == {i \in 1..Len(before) :
                                 before[i].userId = UserOf(s) /\ before[i].socketId # s}
                    left == \E e \in emits' : e.ev = "collaborator-left" /\ e.room = p
                IN  /\ s \notin SocketIds(after)
                    /\ others # {} =>
                           /\ ~left
                           /\ \A i \in others : before[i].socketId \in SocketIds(after)
                    /\ (others = {} /\ s \in SocketIds(before)) => left]_vars

C17_OneUpdatePerChange ==
    [][\A s \in Sockets, p \in ProjectIds :
            LET before == collaboratorsByProject[p]
                after == collaboratorsByProject'[p]
                updates == {e \in emits' : e.ev = "collaborator-update"}
                one == {[ev |-> "collaborator-update", room |-> p, list |-> after]}
            IN  /\ (last'.op \in {"join", "rejoin"} /\ last'.s = s /\ last'.arg = p)
                       => updates = one
                /\ (last' = Handled("leave", s, p) /\ after # before)
                       => updates = one]_vars

C17_Witness ==
    /\ last = Handled("leave", "s3", "P2")
    /\ emits # {}
    /\ collaboratorsByProject["P2"] # <<>>

\* C18: when two sockets of one user are both joined to a room (neither has
\* left or disconnected), the room's list holds an entry for each of them.
C18_OneEntryPerSocket ==
    \A p \in ProjectIds : \A s, t \in joined[p] :
        (s # t /\ UserOf(s) = UserOf(t)) =>
            {s, t} \subseteq SocketIds(collaboratorsByProject[p])

\* C19: in no room do two entries of the collaborator list have the same
\* socketId.
C19_UniqueSocketIds ==
    \A p \in ProjectIds :
        \A i, j \in 1..Len(collaboratorsByProject[p]) :
            i # j => collaboratorsByProject[p][i].socketId
                        # collaboratorsByProject[p][j].socketId

C19_Witness ==
    /\ Len(collaboratorsByProject["P2"]) = 2
    /\ Len(collaboratorsByProject["P1"]) = 1
    /\ last.op = "rejoin"

\* C20: a run of executeCode that was ended by the timeout returns a
\* successful result (success = true, no error) that carries the output
\* captured up to the kill.
C20_TimeoutIsSuccess ==
    \A r \in Runs :
        runEnd[r] = "timeout" =>
            /\ runResult[r].success
            /\ ~runResult[r].error
            /\ runResult[r].output = runOutput[r]

\* C21: a run whose child exits with code 0 before the timeout returns a
\* successful result; a run whose child exits with another code without
\* having announced a server returns a failed result that still carries the
\* captured output.
C21_ExitCodeDecides ==
    \A r \in Runs :
        /\ runEnd[r] = "exit0" => runResult[r].success
        /\ (runEnd[r] = "exitN" /\ ~runServerStarted[r]) =>
               /\ ~runResult[r].success
               /\ runResult[r].output = runOutput[r]

\* C22: on every terminal outcome of a run its workspace directory is
\* deleted, or the deletion failed and one delayed retry is pending; the
\* failure of the deletion leaves the reported result as it was.
C22_WorkspaceDeleted ==
    \A r \in Runs :
        runPc[r] = "done" =>
            /\ runDir[r] \in {"removed", "retryPending"}
            /\ runResult[r] = RunResult(runEnd[r], runServerStarted[r],
                                        runErrorOutput[r], runOutput[r], runPort[r])

\* C23: a request never has two live subprocesses: the port-conflict retry is
\* spawned only when the first attempt's subprocess has exited, also when the
\* first attempt was ended by the timeout kill.
C23_OneSubprocessPerJob ==
    \A r \in Requests : LiveChildren(r) <= 1

\* C24: every subprocess the handler waits on, the one spawned by the
\* port-conflict retry included, has a pending timer that will end it.
C24_EveryChildHasTimeout ==
    \A r \in Requests : ChildLive(r) => timerArmed[r]

\* C25: a clear of the room's history succeeds only for the owner or a
\* collaborator of an existing project; a successful clear deletes every
\* message of the room and hands a chat_cleared event to the room's socket.io
\* members and event-stream subscribers; a refused clear deletes no message
\* and emits no event.
C25_ClearOnlyByMembers ==
    /\ [](lastClear.status = "200" =>
             /\ lastClear.who \in {"owner", "collaborator"}
             /\ lastClear.found
             /\ lastClear.to = {"ws", "sse"})
    /\ [](lastClear.status \in {"403", "404"} => lastClear.to = {})
    /\ [][/\ (~cleared /\ cleared') => (stored' = <<>> /\ lastClear'.status = "200")
          /\ Len(stored') < Len(stored) => (~cleared /\ cleared')]_vars

\* C26: the history query returns at most 100 messages, and when the room
\* holds more than that, the ones returned are the latest by creation time:
\* no message left out is newer than a message returned.
C26_MostRecentN ==
    [][listed' # listed =>
          /\ Len(listed') <= HISTORY_LIMIT
          /\ Range(listed') \subseteq roomDocs
          /\ \A x \in Range(listed'), y \in roomDocs \ Range(listed') : y < x]_vars

\* C27: a broadcast whose write throws for one connection is still written
\* to every other connection of the project, and the publisher's request is
\* answered normally.
C27_FailedWriteIsolated ==
    [][Len(sseResponses') > Len(sseResponses) =>
          /\ sseResponses'[Len(sseResponses')] = "201"
          /\ \A i \in 1..Len(activeConnections) :
                sseConn[activeConnections[i]] = "open" =>
                    sseReceived'[activeConnections[i]] =
                        Append(sseReceived[activeConnections[i]], Len(sseResponses'))]_vars

C27_Witness ==
    \E i, j \in 1..Len(activeConnections) :
        /\ i < j
        /\ Len(sseResponses) >= 1
        /\ sseConn[activeConnections[i]] = "broken"
        /\ Len(sseResponses) \notin Range(sseReceived[activeConnections[i]])
        /\ sseConn[activeConnections[j]] = "open"
        /\ Len(sseResponses) \in Range(sseReceived[activeConnections[j]])

C28_CancelTakesEffect ==
    /\ stopped.at = "queued" => ~Started(stopped.job)
    /\ stopped.at = "running" => jobState[stopped.job] \notin {"resolved", "rejected"}

\* C30: when the child has printed the server-started marker with a port,
\* the run ends only by the child's exit or the timeout, and the result that
\* is returned reports that port.
C30_ServerPortReported ==
    \A r \in Runs :
        (runPc[r] = "done" /\ runPrinted[r]) =>
            /\ runResult[r].port \in Ports
            /\ runResult[r].port = runPort[r]

\* C31: at most MAX_CONCURRENT job bodies have started and not yet settled,
\* whatever the order of add calls and completions.
C31_AtMostCBodies ==
    Cardinality({j \in Jobs : InBody(j)}) <= MAX_CONCURRENT

C31_Witness ==
    /\ Cardinality({j \in Jobs : InBody(j)}) = MAX_CONCURRENT
    /\ Len(queue) >= 2
    /\ \E j \in Jobs : jobState[j] = "throwing"

\* C32: the queue is work-conserving: while a job waits in the queue exactly
\* MAX_CONCURRENT jobs are running, so no job waits while a slot is free.
C32_WorkConserving ==
    queue # <<>> =>
        /\ running = MAX_CONCURRENT
        /\ Cardinality({j \in Jobs : InBody(j)}) = MAX_CONCURRENT

C32_Witness ==
    /\ queue # <<>>
    /\ \E j \in Jobs : jobState[j] \in {"resolved", "rejected"}
    /\ running = MAX_CONCURRENT

\* C40: running is never negative and equals the number of jobs that have
\* started and not yet settled; when every job handed to add has settled,
\* resolved or rejected, running is 0 and the queue is empty.
C40_RunningCountsBodies ==
    /\ running >= 0
    /\ running = Cardinality({j \in Jobs : InBody(j)})
    /\ (\A j \in everQueued : jobState[j] \in {"resolved", "rejected"}) =>
           (running = 0 /\ queue = <<>>)

C40_Witness ==
    /\ everQueued = Jobs
    /\ \A j \in Jobs : jobState[j] \in {"resolved", "rejected"}
    /\ \E j \in Jobs : jobState[j] = "rejected"
    /\ \E j \in Jobs : jobState[j] = "resolved"
    /\ running = 0

\* C36: a socket that disconnected while the project lookup of its own join
\* was pending is not in the room's collaborator list once that lookup has
\* completed.
C36_NoEntryAfterPendingDisconnect ==
    \A s \in Sockets, p \in ProjectIds :
        (conn[s] = "closed" /\ <<s, p>> \notin pendingJoin) =>
            s \notin SocketIds(collaboratorsByProject[p])

\* C33: when join, leave and disconnect handlers of different sockets on one
\* room interleave, no update is lost: a handler run for one socket adds or
\* removes that socket's entry only, so the entry that another socket's
\* completed join put on the list is still there after the step.
C33_NoLostUpdate ==
    [][\A p \in ProjectIds : \A t \in SocketIds(collaboratorsByProject[p]) :
            t \notin SocketIds(collaboratorsByProject'[p]) => last'.s = t]_vars

\* C38: the registry of a project holds exactly the event-stream connections
\* that are currently open, each of them once: a connection is registered
\* when it is opened and its own entry, and only its own, is removed when it
\* closes, also when two connections were opened at the same clock instant.
C38_RegistryIsOpenConnections ==
    /\ Range(activeConnections) = {c \in Conns : sseConn[c] \in {"open", "broken"}}
    /\ \A i, j \in 1..Len(activeConnections) :
          i # j => activeConnections[i] # activeConnections[j]

\* C39: a connection whose write failed in a broadcast is no longer in the
\* project's set of active connections when that broadcast is over.
C39_BrokenConnectionRemoved ==
    [][Len(sseResponses') > Len(sseResponses) =>
          \A i \in 1..Len(activeConnections) :
              sseConn[activeConnections[i]] = "broken" =>
                  activeConnections[i] \notin Range(activeConnections')]_vars

\* C34: a chat message for a non-public project P submitted by a connection
\* whose identity is neither owner nor collaborator of P is refused: it is
\* neither persisted nor broadcast.
C34_NonMemberRefused ==
    \A i \in 1..Len(posts) :
        (posts[i].p \in Projects /\ ~HasAccess(posts[i].s, posts[i].p)) =>
            (~posts[i].saved /\ ~posts[i].emitted)

\* C35: the author id of every chat message that is persisted or broadcast
\* is the verified identity of the connection that submitted it, whatever
\* sender id the payload carries.
C35_AuthorIsVerifiedIdentity ==
    \A i \in 1..Len(posts) :
        (posts[i].saved \/ posts[i].emitted) => posts[i].author = UserOf(posts[i].s)

C35_Witness ==
    \E i, j \in 1..Len(posts) :
        /\ posts[i].via = "socket"
        /\ posts[i].claimed \notin {"none", UserOf(posts[i].s)}
        /\ posts[i].saved /\ posts[i].emitted
        /\ posts[j].via = "socket"
        /\ posts[j].claimed \notin {"none", UserOf(posts[j].s)}
        /\ ~posts[j].saved /\ posts[j].emitted

\* C37: once the response of a run has been sent, no data handler of that
\* run emits an executionLog event to the room any more, whether the child
\* exited by itself or was killed by the timer.
C37_NoLogAfterResponse ==
    [][logResponse =>
          (Len(outPipe') >= Len(outPipe) /\ Len(errPipe') >= Len(errPipe))]_vars

====
